---- MODULE Spec2Model ----
(***************************************************************************)
(* Model of src/audit/mod.rs of audit-snitch: the SyscallRecord field      *)
(* extraction (syscall_extract_fields), the two wire dispatchers           *)
(* (dispatch_keepalive, dispatch_audit_event) writing length-prefixed      *)
(* frames to an output stream, and the Correlator that pairs SYSCALL and   *)
(* EXECVE records by id.                                                   *)
(*                                                                         *)
(* Representation.                                                         *)
(*  - A Rust String / &str is a sequence of one-character strings.         *)
(*  - Option<T> is a sequence of length 0 (None) or 1 (Some).              *)
(*  - A u32 is a sequence of 8 hexadecimal digits (nibbles), most          *)
(*    significant first, so that all 32 bits are kept.                     *)
(*  - A usize byte count is three limbs <<l2, l1, l0>> standing for        *)
(*    l2 * 2^32 + l1 * 2^16 + l0, so that a count that does not fit in     *)
(*    32 bits is representable and `as u32` is a real truncation.          *)
(***************************************************************************)
EXTENDS Integers, Sequences, FiniteSets, TLC

VARIABLES
    rec,        \* parser: the SyscallRecord being filled by syscall_extract_fields
    lastKey,    \* parser: key of the last key=value token extracted
    lastValue,  \* parser: value of the last key=value token extracted
    ntok,       \* parser: number of tokens extracted so far
    pc,         \* dispatch: position of each path inside its dispatch call
    frame,      \* dispatch: locals of each path's call (message, payload, full_message)
    stream,     \* dispatch: what has been written to the output stream, in order
    ops,        \* dispatch: log of the I/O operations performed, in order
    calls,      \* dispatch: log of the dispatch calls, in call order, with their result
    holder,     \* dispatch: the path that currently has exclusive use of the stream
    buffer,     \* correlator: id -> the buffered unmatched half
    emitted,    \* correlator: the pairs handed to dispatch_audit_event, in order
    now,        \* correlator: wall clock
    nfed,       \* correlator: number of records received so far
    lastEvent   \* correlator: what the last step did

vars == <<rec, lastKey, lastValue, ntok, pc, frame, stream, ops, calls, holder,
          buffer, emitted, now, nfed, lastEvent>>

parserVars == <<rec, lastKey, lastValue, ntok>>
dispatchVars == <<pc, frame, stream, ops, calls, holder>>
correlatorVars == <<buffer, emitted, now, nfed, lastEvent>>

(***************************************************************************)
(* Bounds of the model.                                                    *)
(***************************************************************************)
MaxTokens == 2
MaxCalls == 2
MaxRecords == 4
MaxTime == 3

(***************************************************************************)
(* Constants of the source.                                                *)
(***************************************************************************)
REPORT_TYPE_PROGRAMRUN == 1
REPORT_TYPE_KEEPALIVE == 2
EM_386 == 3
EM_X86_64 == 62
AUDIT_ARCH_64BIT == <<8, 0, 0, 0, 0, 0, 0, 0>>
AUDIT_ARCH_LE == <<4, 0, 0, 0, 0, 0, 0, 0>>

None == <<>>
Some(x) == <<x>>

(***************************************************************************)
(* u32 arithmetic on 8 nibbles.                                            *)
(***************************************************************************)
RECURSIVE BitAnd(_, _)
BitAnd(a, b) ==
    IF a = 0 \/ b = 0 THEN 0
    ELSE (IF a % 2 = 1 /\ b % 2 = 1 THEN 1 ELSE 0) + 2 * BitAnd(a \div 2, b \div 2)

U32Of(n) == [i \in 1..8 |-> (n \div (16 ^ (8 - i))) % 16]
U32Zero == [i \in 1..8 |-> 0]
U32And(a, b) == [i \in 1..8 |-> BitAnd(a[i], b[i])]
U32AndNot(a, b) == [i \in 1..8 |-> a[i] - BitAnd(a[i], b[i])]

(***************************************************************************)
(* Number parsing: std's from_str_radix.                                   *)
(***************************************************************************)
HexDigits == <<"0", "1", "2", "3", "4", "5", "6", "7", "8", "9",
               "a", "b", "c", "d", "e", "f">>
HexUpper == <<"0", "1", "2", "3", "4", "5", "6", "7", "8", "9",
              "A", "B", "C", "D", "E", "F">>
IsHexDigit(c) == \E i \in 1..16 : HexDigits[i] = c \/ HexUpper[i] = c
HexVal(c) == (CHOOSE i \in 1..16 : HexDigits[i] = c \/ HexUpper[i] = c) - 1
IsDecDigit(c) == \E i \in 1..10 : HexDigits[i] = c
DecVal(c) == (CHOOSE i \in 1..10 : HexDigits[i] = c) - 1

RECURSIVE StripZeros(_)
StripZeros(ds) ==
    IF ds # <<>> /\ Head(ds) = "0" THEN StripZeros(Tail(ds)) ELSE ds

\* u32::from_str_radix(value, 16): Ok(8 nibbles) or Err.  An empty string, a
\* lone sign, a character that is no hexadecimal digit (a '-' included, u32
\* being unsigned) and a value above u32::MAX are errors.
u32_from_str_radix_16(value) ==
    LET ds == IF value # <<>> /\ Head(value) = "+" THEN Tail(value) ELSE value
        sig == StripZeros(ds)
    IN  IF ds = <<>> \/ \E i \in 1..Len(ds) : ~IsHexDigit(ds[i])
        THEN [ok |-> FALSE, val |-> U32Zero]
        ELSE IF Len(sig) > 8
        THEN [ok |-> FALSE, val |-> U32Zero]
        ELSE [ok |-> TRUE,
              val |-> [i \in 1..8 |->
                         IF i <= 8 - Len(sig) THEN 0
                         ELSE HexVal(sig[i - (8 - Len(sig))])]]

I32Max == 2147483647
I32Min == (-2147483647) - 1

\* Accumulates the digits as std does: positive numbers upwards, negative
\* ones downwards, failing on the first step that leaves the i32 range.
RECURSIVE AccDec(_, _, _)
AccDec(ds, acc, neg) ==
    IF ds = <<>> THEN [ok |-> TRUE, val |-> acc]
    ELSE LET d == DecVal(Head(ds))
         IN  IF neg
             THEN IF acc < (I32Min + d) \div 10 + (IF (I32Min + d) % 10 = 0 THEN 0 ELSE 1)
                  THEN [ok |-> FALSE, val |-> 0]
                  ELSE AccDec(Tail(ds), acc * 10 - d, neg)
             ELSE IF acc > (I32Max - d) \div 10
                  THEN [ok |-> FALSE, val |-> 0]
                  ELSE AccDec(Tail(ds), acc * 10 + d, neg)

\* i32::from_str_radix(txt, 10)
i32_from_str_radix_10(txt) ==
    LET neg == txt # <<>> /\ Head(txt) = "-"
        ds == IF txt # <<>> /\ (Head(txt) = "+" \/ Head(txt) = "-") THEN Tail(txt) ELSE txt
    IN  IF ds = <<>> \/ \E i \in 1..Len(ds) : ~IsDecDigit(ds[i])
        THEN [ok |-> FALSE, val |-> 0]
        ELSE AccDec(ds, 0, neg)

parse_i32_default(txt, def) ==
    LET r == i32_from_str_radix_10(txt)
    IN  IF r.ok THEN r.val ELSE def

(***************************************************************************)
(* SyscallRecord and syscall_extract_fields.                               *)
(***************************************************************************)
NullValue == <<"(", "n", "u", "l", "l", ")">>
YesValue == <<"y", "e", "s">>

\* The arch decoding of syscall_extract_fields.
DecodeArch(value) ==
    LET r == u32_from_str_radix_16(value)
    IN  IF r.ok
        THEN IF U32And(r.val, U32Of(EM_386)) # U32Zero THEN "I386"
             ELSE IF U32And(r.val, U32Of(EM_X86_64)) # U32Zero THEN "Amd64"
             ELSE "Unknown"
        ELSE "Unknown"

\* The match on key of syscall_extract_fields.
extract_assign(r, key, value) ==
    CASE key = "arch" -> [r EXCEPT !.arch = DecodeArch(value)]
      [] key = "syscall" -> [r EXCEPT !.syscall = parse_i32_default(value, -1)]
      [] key = "success" -> [r EXCEPT !.success = (value = YesValue)]
      [] key = "exit" -> [r EXCEPT !.exit = parse_i32_default(value, -1)]
      [] key = "pid" -> [r EXCEPT !.pid = parse_i32_default(value, -1)]
      [] key = "ppid" -> [r EXCEPT !.ppid = parse_i32_default(value, -1)]
      [] key = "uid" -> [r EXCEPT !.uid = parse_i32_default(value, -1)]
      [] key = "gid" -> [r EXCEPT !.gid = parse_i32_default(value, -1)]
      [] key = "auid" -> [r EXCEPT !.auid = parse_i32_default(value, -1)]
      [] key = "euid" -> [r EXCEPT !.euid = parse_i32_default(value, -1)]
      [] key = "egid" -> [r EXCEPT !.egid = parse_i32_default(value, -1)]
      [] key = "suid" -> [r EXCEPT !.suid = parse_i32_default(value, -1)]
      [] key = "sgid" -> [r EXCEPT !.sgid = parse_i32_default(value, -1)]
      [] key = "fsuid" -> [r EXCEPT !.fsuid = parse_i32_default(value, -1)]
      [] key = "fsgid" -> [r EXCEPT !.fsgid = parse_i32_default(value, -1)]
      [] key = "tty" -> [r EXCEPT !.tty = Some(value)]
      [] key = "comm" -> [r EXCEPT !.comm = Some(value)]
      [] key = "exe" -> [r EXCEPT !.exe = Some(value)]
      [] key = "key" -> [r EXCEPT !.key = Some(value)]
      [] key = "subj" -> [r EXCEPT !.subj = Some(value)]
      [] OTHER -> r

\* The function without its early return on "(null)".
extract_without_null_check(r, key, value) ==
    extract_assign(r, key, value)

syscall_extract_fields(r, key, value) ==
    IF value = NullValue THEN r ELSE extract_assign(r, key, value)

\* A SyscallRecord as a parser hands it to syscall_extract_fields before the
\* first token: numeric fields at their default, optional fields absent.
EmptySyscallRecord ==
    [id |-> 1, timestamp |-> 0, timestamp_frac |-> 0, inserted_timestamp |-> 0,
     arch |-> "Unknown",
     syscall |-> -1, success |-> FALSE, exit |-> -1,
     pid |-> -1, ppid |-> -1, uid |-> -1, gid |-> -1, auid |-> -1,
     euid |-> -1, egid |-> -1, suid |-> -1, sgid |-> -1, fsuid |-> -1,
     fsgid |-> -1,
     tty |-> None, comm |-> None, exe |-> None, key |-> None, subj |-> None]

ExtractKeys ==
    {"arch", "syscall", "success", "exit", "pid", "ppid", "uid", "gid", "auid",
     "euid", "egid", "suid", "sgid", "fsuid", "fsgid", "tty", "comm", "exe",
     "key", "subj", "foo"}

ExtractValues ==
    {NullValue, YesValue,
     <<"4", "0", "0", "0", "0", "0", "0", "3">>,
     <<"8", "0", "0", "0", "0", "0", "3", "e">>,
     <<"d", "e", "a", "d", "b", "e", "e", "f">>,
     <<"4", "0">>,
     <<"4">>,
     <<"9", "9", "9", "9", "9", "9", "9", "9", "9", "9", "9">>}

\* One key=value token of a SYSCALL line is extracted into the record.
ExtractField(key, value) ==
    /\ ntok < MaxTokens
    /\ rec' = syscall_extract_fields(rec, key, value)
    /\ lastKey' = key
    /\ lastValue' = value
    /\ ntok' = ntok + 1
    /\ UNCHANGED <<dispatchVars, correlatorVars>>

(***************************************************************************)
(* Byte counts (usize) as limbs, the `as u32` cast and the big-endian      *)
(* header.                                                                 *)
(***************************************************************************)
LimbBase == 2 ^ 16

USize(n) == <<0, n \div LimbBase, n % LimbBase>>

USizeAdd(a, b) ==
    LET s0 == a[3] + b[3]
        s1 == a[2] + b[2] + (s0 \div LimbBase)
    IN  <<a[1] + b[1] + (s1 \div LimbBase), s1 % LimbBase, s0 % LimbBase>>

RECURSIVE USizeSum(_)
USizeSum(ls) ==
    IF ls = <<>> THEN USize(0) ELSE USizeAdd(Head(ls), USizeSum(Tail(ls)))

\* full_message.len() as u32: the low 32 bits, as two 16-bit limbs.
as_u32(len) == <<0, len[2], len[3]>>

\* write_u32::<NetworkEndian>(v): the four bytes, most significant first.
BigEndian32(v) ==
    <<v[2] \div 256, v[2] % 256, v[3] \div 256, v[3] % 256>>

\* What a reader of the stream makes of a 4-byte big-endian header.
ReadBigEndian32(bytes) ==
    <<0, bytes[1] * 256 + bytes[2], bytes[3] * 256 + bytes[4]>>

(***************************************************************************)
(* Protobuf serialisation (Message::write_to into a Vec-backed             *)
(* CodedOutputStream).  A serialised message is kept as the message it     *)
(* decodes to, with its byte count.                                        *)
(***************************************************************************)
RECURSIVE VarintLen(_)
VarintLen(v) ==
    IF v < 0 THEN 10 ELSE IF v < 128 THEN 1 ELSE 1 + VarintLen(v \div 128)

\* Bytes of the varint that carries a byte count.
CountVarintLen(len) ==
    IF len[1] = 0 /\ len[2] < LimbBase \div 2
    THEN VarintLen(len[2] * LimbBase + len[3])
    ELSE 5

IntFieldLen(v) == USize(1 + VarintLen(v))
BoolFieldLen == USize(2)
BytesFieldLen(len) == USizeAdd(USize(1 + CountVarintLen(len)), len)
StringFieldLen(str) == BytesFieldLen(USize(Len(str)))
OptStringFieldLen(opt) == IF opt = None THEN USize(0) ELSE StringFieldLen(opt[1])

TimestampLen(ts) ==
    USizeAdd(IntFieldLen(ts.timestamp), IntFieldLen(ts.timestamp_frac))

KeepAliveLen(k) == BytesFieldLen(TimestampLen(k.timestamp))

ProgramRunLen(p) ==
    USizeSum(<<BytesFieldLen(TimestampLen(p.timestamp)),
               StringFieldLen(p.arch),
               IntFieldLen(p.syscall), BoolFieldLen, IntFieldLen(p.exit),
               IntFieldLen(p.pid), IntFieldLen(p.ppid), IntFieldLen(p.uid),
               IntFieldLen(p.gid), IntFieldLen(p.auid), IntFieldLen(p.euid),
               IntFieldLen(p.egid), IntFieldLen(p.suid), IntFieldLen(p.sgid),
               IntFieldLen(p.fsuid), IntFieldLen(p.fsgid),
               OptStringFieldLen(p.tty), OptStringFieldLen(p.comm),
               OptStringFieldLen(p.exe), OptStringFieldLen(p.key),
               USizeSum([i \in 1..Len(p.args) |-> BytesFieldLen(p.args[i])])>>)

EmptyBytes == [len |-> USize(0), of |-> <<>>]

\* The bytes write_to produces for a KeepAlive or a ProgramRun.
EncodeInner(fn, m) ==
    [len |-> IF fn = "dispatch_keepalive" THEN KeepAliveLen(m) ELSE ProgramRunLen(m),
     of |-> <<m>>]

\* The bytes write_to produces for the SnitchReport envelope.
EncodeReport(msg) ==
    [len |-> USizeAdd(IntFieldLen(msg.message_type), BytesFieldLen(msg.payload.len)),
     of |-> <<msg>>]

(***************************************************************************)
(* The messages the two dispatchers build.                                 *)
(***************************************************************************)
NewReport(message_type) == [message_type |-> message_type, payload |-> EmptyBytes]

\* The envelope with a keepalive's discriminator replaced by the program-run one.
KeepaliveReportMistyped == NewReport(REPORT_TYPE_PROGRAMRUN)

\* SnitchReport::new() and set_message_type of dispatch_keepalive.
KeepaliveReport == NewReport(REPORT_TYPE_KEEPALIVE)

\* SnitchReport::new() and set_message_type of dispatch_audit_event.
ProgramRunReport == NewReport(REPORT_TYPE_PROGRAMRUN)

\* A reading of SystemTime::now().duration_since(UNIX_EPOCH).
ClockReadings ==
    {[ok |-> TRUE, secs |-> 7, nanos |-> 9], [ok |-> FALSE, secs |-> 0, nanos |-> 0]}

\* The KeepAlive message of dispatch_keepalive: the clock's reading, or zero
\* when the clock is before the epoch.
BuildKeepAlive(reading) ==
    LET now_ts == IF reading.ok THEN reading ELSE [ok |-> TRUE, secs |-> 0, nanos |-> 0]
    IN  [timestamp |-> [timestamp |-> now_ts.secs, timestamp_frac |-> now_ts.nanos]]

ArchString(arch) ==
    CASE arch = "Unknown" -> <<"U", "n", "k", "n", "o", "w", "n">>
      [] arch = "I386" -> <<"i", "3", "8", "6">>
      [] arch = "Amd64" -> <<"a", "m", "d", "6", "4">>

\* The ProgramRun with subj kept off the tty field.
BuildProgramRunSubjDropped(syscall, execve) ==
    [timestamp |-> [timestamp |-> syscall.timestamp,
                    timestamp_frac |-> syscall.timestamp_frac],
     arch |-> ArchString(syscall.arch),
     syscall |-> syscall.syscall, success |-> syscall.success, exit |-> syscall.exit,
     pid |-> syscall.pid, ppid |-> syscall.ppid, uid |-> syscall.uid,
     gid |-> syscall.gid, auid |-> syscall.auid, euid |-> syscall.euid,
     egid |-> syscall.egid, suid |-> syscall.sgid, sgid |-> syscall.sgid,
     fsuid |-> syscall.fsuid, fsgid |-> syscall.fsgid,
     tty |-> syscall.tty, comm |-> syscall.comm, exe |-> syscall.exe,
     key |-> syscall.key, args |-> execve.args]

\* The ProgramRun of dispatch_audit_event, setter by setter.  set_tty is
\* called twice: with syscall.tty, then with syscall.subj.
BuildProgramRun(syscall, execve) ==
    LET tty_set == IF syscall.tty # None THEN Some(syscall.tty[1]) ELSE None
        subj_set == IF syscall.subj # None THEN Some(syscall.subj[1]) ELSE tty_set
    IN  [timestamp |-> [timestamp |-> syscall.timestamp,
                        timestamp_frac |-> syscall.timestamp_frac],
         arch |-> ArchString(syscall.arch),
         syscall |-> syscall.syscall,
         success |-> syscall.success,
         exit |-> syscall.exit,
         pid |-> syscall.pid,
         ppid |-> syscall.ppid,
         uid |-> syscall.uid,
         gid |-> syscall.gid,
         auid |-> syscall.auid,
         euid |-> syscall.euid,
         egid |-> syscall.egid,
         suid |-> syscall.sgid,
         sgid |-> syscall.sgid,
         fsuid |-> syscall.fsuid,
         fsgid |-> syscall.fsgid,
         tty |-> subj_set,
         comm |-> IF syscall.comm # None THEN Some(syscall.comm[1]) ELSE None,
         exe |-> IF syscall.exe # None THEN Some(syscall.exe[1]) ELSE None,
         key |-> IF syscall.key # None THEN Some(syscall.key[1]) ELSE None,
         args |-> [i \in 1..Len(execve.args) |-> execve.args[i]]]

(***************************************************************************)
(* Inputs of dispatch_audit_event.                                         *)
(***************************************************************************)
TtyText == <<"p", "t", "s", "0">>
SubjText == <<"u", "n", "c">>
CommText == <<"l", "s">>
ExeText == <<"/", "b", "i", "n", "/", "l", "s">>
KeyText == <<"k">>

\* A record whose numeric fields all differ from one another.
DistinctSyscallRecord ==
    [EmptySyscallRecord EXCEPT
        !.timestamp = 1500000000, !.timestamp_frac = 123,
        !.syscall = 59, !.success = TRUE, !.exit = 0,
        !.pid = 4242, !.ppid = 4241, !.uid = 1000, !.gid = 1001, !.auid = 1002,
        !.euid = 1003, !.egid = 1004, !.suid = 1005, !.sgid = 1006,
        !.fsuid = 1007, !.fsgid = 1008]

\* Records as a parser produces them.
SyscallRecords ==
    {EmptySyscallRecord, DistinctSyscallRecord}
    \cup {[EmptySyscallRecord EXCEPT !.arch = a] : a \in {"I386", "Amd64"}}
    \cup {[EmptySyscallRecord EXCEPT !.tty = Some(TtyText)],
          [EmptySyscallRecord EXCEPT !.subj = Some(SubjText)],
          [EmptySyscallRecord EXCEPT !.tty = Some(TtyText), !.subj = Some(SubjText)],
          [DistinctSyscallRecord EXCEPT !.comm = Some(CommText), !.exe = Some(ExeText),
                                        !.key = Some(KeyText)]}

\* An argument of the EXECVE line is represented by its byte count: two
\* short arguments, and one argument of 2^32 bytes.
ShortArgs == <<USize(2), USize(2)>>
HugeArgs == <<<<1, 0, 0>>>>

NewExecveRecord(args) ==
    [id |-> 1, timestamp |-> 0, timestamp_frac |-> 0, inserted_timestamp |-> 0,
     args |-> args]

DispatchPairs ==
    {<<s, NewExecveRecord(<<>>)>> : s \in SyscallRecords}
    \cup {<<s, NewExecveRecord(ShortArgs)>> : s \in SyscallRecords}
    \cup {<<DistinctSyscallRecord, NewExecveRecord(HugeArgs)>>}

(***************************************************************************)
(* The dispatch calls, step by step.  The heartbeat path calls             *)
(* dispatch_keepalive, the event path dispatch_audit_event, on the same    *)
(* output stream.                                                          *)
(***************************************************************************)
Paths == {"heartbeat", "event"}
NoPath == "none"

IdleFrame == [call |-> 0, inner |-> <<>>, msg |-> <<>>, full_message |-> EmptyBytes]

\* The caller's use of the stream without any mutual exclusion.
StreamUnguarded == TRUE

\* A path enters a dispatch only with exclusive use of the output stream
\* (the `stream: &mut T` it passes), which it keeps until the call returns.
StreamFree == holder = NoPath

\* A caller treats a failed dispatch as a broken connection and dispatches
\* no more on that stream.
ConnectionUsable == \A i \in 1..Len(calls) : calls[i].result # "err"

MayCall(p) ==
    /\ pc[p] = "idle"
    /\ Len(calls) < MaxCalls
    /\ StreamFree
    /\ ConnectionUsable

\* An I/O result that is dropped instead of being returned.
ResultSwallowed(ok) == "ok"

\* The io::Result a step hands back: `?` returns the error to the caller at once.
ResultOf(ok) == IF ok THEN "ok" ELSE "err"

Op(p, target, op, ok) ==
    [by |-> p, call |-> frame[p].call, target |-> target, op |-> op, ok |-> ok]

PbOutcomes == {"ok", "write_to_failed", "flush_failed"}

\* The operations of write_pb_and_flush on its Vec-backed CodedOutputStream.
PbOps(p, target, outcome) ==
    CASE outcome = "ok" ->
           <<Op(p, target, "write_to", TRUE), Op(p, target, "flush", TRUE)>>
      [] outcome = "write_to_failed" ->
           <<Op(p, target, "write_to", FALSE)>>
      [] outcome = "flush_failed" ->
           <<Op(p, target, "write_to", TRUE), Op(p, target, "flush", FALSE)>>

\* The step's result reaches the caller: the call is over.
Returns(p, result) ==
    /\ pc' = [pc EXCEPT ![p] = "returned"]
    /\ calls' = [calls EXCEPT ![frame[p].call].result = result]

\* dispatch_keepalive up to the creation of the envelope.
KeepaliveEnter(reading) ==
    /\ MayCall("heartbeat")
    /\ holder' = "heartbeat"
    /\ calls' = Append(calls, [fn |-> "dispatch_keepalive", by |-> "heartbeat",
                               result |-> "running", reading |-> reading])
    /\ frame' = [frame EXCEPT !["heartbeat"] =
                    [call |-> Len(calls) + 1,
                     inner |-> <<BuildKeepAlive(reading)>>,
                     msg |-> <<KeepaliveReport>>,
                     full_message |-> EmptyBytes]]
    /\ pc' = [pc EXCEPT !["heartbeat"] = "built"]
    /\ UNCHANGED <<stream, ops, parserVars, correlatorVars>>

\* dispatch_audit_event up to the creation of the envelope.
AuditEventEnter(syscall, execve) ==
    /\ MayCall("event")
    /\ holder' = "event"
    /\ calls' = Append(calls, [fn |-> "dispatch_audit_event", by |-> "event",
                               result |-> "running", syscall |-> syscall,
                               execve |-> execve])
    /\ frame' = [frame EXCEPT !["event"] =
                    [call |-> Len(calls) + 1,
                     inner |-> <<BuildProgramRun(syscall, execve)>>,
                     msg |-> <<ProgramRunReport>>,
                     full_message |-> EmptyBytes]]
    /\ pc' = [pc EXCEPT !["event"] = "built"]
    /\ UNCHANGED <<stream, ops, parserVars, correlatorVars>>

\* write_pb_and_flush of the nested message into payload, and set_payload.
SerializePayload(p, outcome) ==
    /\ pc[p] = "built"
    /\ ops' = ops \o PbOps(p, "payload", outcome)
    /\ IF ResultOf(outcome = "ok") = "ok"
       THEN /\ frame' = [frame EXCEPT ![p].msg =
                           <<[frame[p].msg[1] EXCEPT
                                !.payload = EncodeInner(calls[frame[p].call].fn,
                                                        frame[p].inner[1])]>>]
            /\ pc' = [pc EXCEPT ![p] = "payload_done"]
            /\ UNCHANGED calls
       ELSE /\ Returns(p, "err")
            /\ UNCHANGED frame
    /\ UNCHANGED <<stream, holder, parserVars, correlatorVars>>

\* write_pb_and_flush of the envelope into full_message.
SerializeEnvelope(p, outcome) ==
    /\ pc[p] = "payload_done"
    /\ ops' = ops \o PbOps(p, "full_message", outcome)
    /\ IF ResultOf(outcome = "ok") = "ok"
       THEN /\ frame' = [frame EXCEPT ![p].full_message = EncodeReport(frame[p].msg[1])]
            /\ pc' = [pc EXCEPT ![p] = "envelope_done"]
            /\ UNCHANGED calls
       ELSE /\ Returns(p, "err")
            /\ UNCHANGED frame
    /\ UNCHANGED <<stream, holder, parserVars, correlatorVars>>

HeaderBytes(p) == BigEndian32(as_u32(frame[p].full_message.len))

\* stream.write_u32::<NetworkEndian>(full_message.len() as u32): all four
\* bytes reach the stream, or the write fails after `sent` of them.
WriteHeader(p, sent) ==
    /\ pc[p] = "envelope_done"
    /\ ops' = Append(ops, Op(p, "stream", "write_u32", sent = 4))
    /\ stream' = IF sent = 0 THEN stream
                 ELSE Append(stream, [call |-> frame[p].call, part |-> "header",
                                      bytes |-> SubSeq(HeaderBytes(p), 1, sent)])
    /\ IF ResultOf(sent = 4) = "ok"
       THEN /\ pc' = [pc EXCEPT ![p] = "header_done"]
            /\ UNCHANGED calls
       ELSE Returns(p, "err")
    /\ UNCHANGED <<frame, holder, parserVars, correlatorVars>>

\* stream.write_all(&full_message): the whole envelope reaches the stream, or
\* the write fails after `sent` bytes of it; the call returns the result.
WriteEnvelope(p, complete, sent) ==
    /\ pc[p] = "header_done"
    /\ ops' = Append(ops, Op(p, "stream", "write_all", complete))
    /\ stream' = IF ~complete /\ sent = USize(0) THEN stream
                 ELSE Append(stream,
                             [call |-> frame[p].call, part |-> "envelope",
                              data |-> frame[p].full_message,
                              written |-> IF complete THEN frame[p].full_message.len
                                          ELSE sent])
    /\ Returns(p, ResultOf(complete))
    /\ UNCHANGED <<frame, holder, parserVars, correlatorVars>>

\* The caller has the result and gives up its exclusive use of the stream.
Release(p) ==
    /\ pc[p] = "returned"
    /\ pc' = [pc EXCEPT ![p] = "idle"]
    /\ frame' = [frame EXCEPT ![p] = IdleFrame]
    /\ holder' = IF holder = p THEN NoPath ELSE holder
    /\ UNCHANGED <<stream, ops, calls, parserVars, correlatorVars>>

PartialSent == {USize(0), USize(1)}

NextDispatch ==
    \/ \E reading \in ClockReadings : KeepaliveEnter(reading)
    \/ \E pair \in DispatchPairs : AuditEventEnter(pair[1], pair[2])
    \/ \E p \in Paths, outcome \in PbOutcomes : SerializePayload(p, outcome)
    \/ \E p \in Paths, outcome \in PbOutcomes : SerializeEnvelope(p, outcome)
    \/ \E p \in Paths, sent \in 0..4 : WriteHeader(p, sent)
    \/ \E p \in Paths : WriteEnvelope(p, TRUE, USize(0))
    \/ \E p \in Paths, sent \in PartialSent : WriteEnvelope(p, FALSE, sent)
    \/ \E p \in Paths : Release(p)

(***************************************************************************)
(* AuditRecord and the Correlator.                                         *)
(***************************************************************************)
\* AuditRecord::get_id with the Execve arm reading the field of the next accessor.
get_id_wrong_arm(r) ==
    CASE r.variant = "Syscall" -> r.rec.id
      [] r.variant = "Execve" -> r.rec.inserted_timestamp

\* AuditRecord::get_id
get_id(r) ==
    CASE r.variant = "Syscall" -> r.rec.id
      [] r.variant = "Execve" -> r.rec.id

\* AuditRecord::get_insertion_timestamp
get_insertion_timestamp(r) ==
    CASE r.variant = "Syscall" -> r.rec.inserted_timestamp
      [] r.variant = "Execve" -> r.rec.inserted_timestamp

Variants == {"Syscall", "Execve"}
EventIds == {1, 2}

\* The age beyond which an unmatched half is dropped.
EvictAge == 1

\* The record a parser hands over: `serial` tells the records apart.
NewAuditRecord(variant, id) ==
    [variant |-> variant,
     rec |-> [id |-> id, serial |-> nfed + 1, inserted_timestamp |-> now]]

Stale(r) == now - get_insertion_timestamp(r) > EvictAge

\* The Correlator receives one record: stale halves are dropped first; then
\* the record is buffered, or completes the buffered half of its id (the
\* pair goes to dispatch_audit_event and the entry is removed), or replaces
\* a buffered half of its own variant.
Receive(variant, id) ==
    /\ nfed < MaxRecords
    /\ LET r == NewAuditRecord(variant, id)
           k == get_id(r)
           stale == {b \in DOMAIN buffer : Stale(buffer[b])}
           live == [b \in DOMAIN buffer \ stale |-> buffer[b]]
           ev == [id |-> k, serial |-> r.rec.serial, before |-> Len(emitted),
                  evicted |-> {buffer[b].rec.serial : b \in stale}]
       IN  IF k \notin DOMAIN live
           THEN /\ buffer' = [b \in DOMAIN live \cup {k} |->
                                 IF b = k THEN r ELSE live[b]]
                /\ emitted' = emitted
                /\ lastEvent' = [kind |-> "buffered"] @@ ev
           ELSE IF live[k].variant # variant
           THEN /\ buffer' = [b \in DOMAIN live \ {k} |-> live[b]]
                /\ emitted' = Append(emitted,
                                     IF variant = "Syscall"
                                     THEN [syscall |-> r, execve |-> live[k]]
                                     ELSE [syscall |-> live[k], execve |-> r])
                /\ lastEvent' = [kind |-> "paired"] @@ ev
           ELSE /\ buffer' = [live EXCEPT ![k] = r]
                /\ emitted' = emitted
                /\ lastEvent' = [kind |-> "replaced"] @@ ev
    /\ nfed' = nfed + 1
    /\ UNCHANGED <<now, parserVars, dispatchVars>>

\* Wall-clock time passes.
Tick ==
    /\ now < MaxTime
    /\ now' = now + 1
    /\ UNCHANGED <<buffer, emitted, nfed, lastEvent, parserVars, dispatchVars>>

NextCorrelator ==
    \/ \E variant \in Variants, id \in EventIds : Receive(variant, id)
    \/ Tick

NextExtract ==
    \E key \in ExtractKeys, value \in ExtractValues : ExtractField(key, value)

Init ==
    /\ rec = EmptySyscallRecord
    /\ lastKey = ""
    /\ lastValue = <<>>
    /\ ntok = 0
    /\ pc = [p \in Paths |-> "idle"]
    /\ frame = [p \in Paths |-> IdleFrame]
    /\ stream = <<>>
    /\ ops = <<>>
    /\ calls = <<>>
    /\ holder = NoPath
    /\ buffer = <<>>
    /\ emitted = <<>>
    /\ now = 0
    /\ nfed = 0
    /\ lastEvent = [kind |-> "none"]

Spec == Init /\ [][NextDispatch]_vars

SpecExtract == Init /\ [][NextExtract]_vars

SpecCorrelator == Init /\ [][NextCorrelator]_vars

(***************************************************************************)
(* Properties.                                                             *)
(***************************************************************************)
Segments == 1..Len(stream)
CallIds == 1..Len(calls)

CompleteHeader(i) == stream[i].part = "header" /\ Len(stream[i].bytes) = 4
CompleteEnvelope(i) ==
    stream[i].part = "envelope" /\ stream[i].written = stream[i].data.len

\* The envelopes of program-run dispatches that reached the stream whole.
ProgramRunSegments ==
    {i \in Segments : /\ CompleteEnvelope(i)
                      /\ calls[stream[i].call].fn = "dispatch_audit_event"}
EmittedProgramRun(i) == stream[i].data.of[1].payload.of[1]
InputSyscall(i) == calls[stream[i].call].syscall

\* C1: in every frame on the stream, the number the 4-byte big-endian header
\* encodes is the number of envelope bytes that follow it.
C1_HeaderEqualsEnvelopeLength ==
    \A i \in Segments :
        (/\ CompleteHeader(i)
         /\ i + 1 \in Segments
         /\ CompleteEnvelope(i + 1)
         /\ stream[i + 1].call = stream[i].call)
        => ReadBigEndian32(stream[i].bytes) = stream[i + 1].written

\* C2: every dispatch that returned success flushed the output stream after
\* its last write to it.
C2_FlushBeforeSuccess ==
    \A c \in CallIds :
        calls[c].result = "ok"
        => \E i \in 1..Len(ops) :
              /\ ops[i].call = c /\ ops[i].target = "stream" /\ ops[i].op = "flush"
              /\ \A j \in 1..Len(ops) :
                    (ops[j].call = c /\ ops[j].target = "stream"
                     /\ ops[j].op \in {"write_u32", "write_all"}) => j < i

\* C3: when every dispatch made so far has returned success, the stream is
\* one complete frame per call, in call order: the call's 4-byte header, then
\* its whole envelope, typed KEEPALIVE for dispatch_keepalive and PROGRAMRUN
\* for dispatch_audit_event.
C3_FramesInCallOrder ==
    (\A c \in CallIds : calls[c].result = "ok")
    => /\ Len(stream) = 2 * Len(calls)
       /\ \A c \in CallIds :
            /\ CompleteHeader(2 * c - 1)
            /\ stream[2 * c - 1].call = c
            /\ CompleteEnvelope(2 * c)
            /\ stream[2 * c].call = c
            /\ stream[2 * c].data.of[1].message_type =
                 (IF calls[c].fn = "dispatch_keepalive"
                  THEN REPORT_TYPE_KEEPALIVE ELSE REPORT_TYPE_PROGRAMRUN)

C3_KeepaliveThenProgramRun ==
    /\ Len(calls) >= 2
    /\ calls[1].fn = "dispatch_keepalive" /\ calls[1].result = "ok"
    /\ calls[2].fn = "dispatch_audit_event" /\ calls[2].result = "ok"
    /\ Len(stream) >= 4

\* C4: every emitted ProgramRun carries, under each name, the SyscallRecord's
\* field of that name: the credentials, syscall, success, exit, the timestamp.
C4_FieldsCopiedByName ==
    \A i \in ProgramRunSegments :
        /\ \A f \in {"pid", "ppid", "uid", "gid", "auid", "euid", "egid", "suid",
                     "sgid", "fsuid", "fsgid", "syscall", "success", "exit"} :
              EmittedProgramRun(i)[f] = InputSyscall(i)[f]
        /\ EmittedProgramRun(i).timestamp.timestamp = InputSyscall(i).timestamp
        /\ EmittedProgramRun(i).timestamp.timestamp_frac = InputSyscall(i).timestamp_frac

\* The ELF machine type of an audit arch code: the code without the
\* AUDIT_ARCH_64BIT and AUDIT_ARCH_LE flags.
MachineType(code) == U32AndNot(U32AndNot(code, AUDIT_ARCH_64BIT), AUDIT_ARCH_LE)

ArchByMachineType(value) ==
    LET r == u32_from_str_radix_16(value)
    IN  IF ~r.ok THEN "Unknown"
        ELSE IF MachineType(r.val) = U32Of(EM_386) THEN "I386"
        ELSE IF MachineType(r.val) = U32Of(EM_X86_64) THEN "Amd64"
        ELSE "Unknown"

\* C5: after extracting an arch token, the record's arch is I386 for a code
\* of machine type EM_386, Amd64 for one of machine type EM_X86_64, and
\* Unknown for any other code and for a value that is no hexadecimal u32.
C5_ArchDecodedByMachineType ==
    (lastKey = "arch" /\ lastValue # NullValue)
    => rec.arch = ArchByMachineType(lastValue)

C8_FailuresSurface ==
    \A c \in CallIds :
        /\ (\E i \in 1..Len(ops) : ops[i].call = c /\ ~ops[i].ok)
           => calls[c].result = "err"
        /\ (\E i \in 1..Len(ops) :
               ops[i].call = c /\ ~ops[i].ok /\ ops[i].target # "stream")
           => \A i \in Segments : stream[i].call # c
        /\ (/\ calls[c].result # "running"
            /\ \E i \in Segments : stream[i].call = c
            /\ ~\E i \in Segments :
                  /\ stream[i].call = c /\ CompleteHeader(i)
                  /\ i + 1 \in Segments
                  /\ stream[i + 1].call = c /\ CompleteEnvelope(i + 1))
           => calls[c].result = "err"

\* A header is on the stream whole, the envelope write failed part-way, and
\* the call returned an error.
C8_PartialFrameReported ==
    \E i \in Segments :
        /\ CompleteHeader(i)
        /\ i + 1 \in Segments
        /\ stream[i + 1].call = stream[i].call
        /\ stream[i + 1].part = "envelope"
        /\ ~CompleteEnvelope(i + 1)
        /\ calls[stream[i].call].result = "err"

\* C9: extracting a token whose value is "(null)" leaves every field of the
\* record as it was, whatever the key.
C9_NullLeavesRecordUnchanged ==
    [][(ntok' = ntok + 1 /\ lastValue' = NullValue) => rec' = rec]_vars

\* key=(null) was extracted into a record that already has fields set, and
\* key is still absent.
C9_NullKeyExtracted ==
    /\ lastKey = "key"
    /\ lastValue = NullValue
    /\ rec.key = None
    /\ rec # EmptySyscallRecord
    /\ ntok = 2

\* C10: the emitted ProgramRun's tty is the record's subj when subj is
\* present, else the record's tty (unset when that is absent too); comm, exe
\* and key are the record's own, and the ProgramRun has no subj field.
C10_SubjWrittenOntoTty ==
    \A i \in ProgramRunSegments :
        /\ EmittedProgramRun(i).tty =
              (IF InputSyscall(i).subj # None THEN InputSyscall(i).subj
               ELSE InputSyscall(i).tty)
        /\ EmittedProgramRun(i).comm = InputSyscall(i).comm
        /\ EmittedProgramRun(i).exe = InputSyscall(i).exe
        /\ EmittedProgramRun(i).key = InputSyscall(i).key
        /\ "subj" \notin DOMAIN EmittedProgramRun(i)

\* A record with both tty and subj was dispatched: the emitted tty is subj.
C10_SubjOverTty ==
    \E i \in ProgramRunSegments :
        /\ InputSyscall(i).subj = Some(SubjText)
        /\ InputSyscall(i).tty = Some(TtyText)
        /\ EmittedProgramRun(i).tty = Some(SubjText)

====
